---- MODULE Spec2Model ----
(***************************************************************************)
(* Model of the production console (App component, src/unnamed/part_000)   *)
(* and of its generative-service wrappers (src/services/geminiService.ts). *)
(*                                                                         *)
(* Texts are strings, taken apart as the sequences of characters they are. *)
(* Image payloads are opaque strings.                                      *)
(*                                                                         *)
(* React is modelled as it schedules this component under automatic        *)
(* batching: the state updates of one synchronous stretch of code commit   *)
(* together, the automation effect runs after a commit that changed one of *)
(* its dependencies and before anything else runs, and an async function   *)
(* keeps reading the state of the render that started it.                  *)
(*                                                                         *)
(* Left out: the status line, the console's scroll reference, the time     *)
(* stamps of the log lines and the body of the per-frame meta file; none   *)
(* of them is read by the code that is modelled.                           *)
(***************************************************************************)
EXTENDS Integers, Sequences, FiniteSets, Bags, TLC

\* ------------------------------------------------------------------------
\* Bounds of the model
\* ------------------------------------------------------------------------
MaxUploads == 3
MaxFrames == 3
MaxTexts == 2

\* ------------------------------------------------------------------------
\* Characters and strings
\* ------------------------------------------------------------------------
NL == "\n"

\* UTF-16 code units of the characters the model uses.
Code ==
  (NL :> 10) @@ (" " :> 32) @@ ("." :> 46) @@ ("1" :> 49) @@ ("B" :> 66) @@
  ("a" :> 97) @@ ("b" :> 98) @@ ("g" :> 103) @@ ("h" :> 104) @@ ("i" :> 105) @@
  ("n" :> 110) @@ ("p" :> 112) @@ ("t" :> 116) @@ ("x" :> 120)

\* Collation of the same characters as String.prototype.localeCompare orders
\* them (root collation): punctuation, then digits, then letters; letters
\* differ by case only at the last level, lower case first.
Primary ==
  (NL :> 1) @@ (" " :> 2) @@ ("." :> 3) @@ ("1" :> 4) @@ ("B" :> 11) @@
  ("a" :> 10) @@ ("b" :> 11) @@ ("g" :> 12) @@ ("h" :> 13) @@ ("i" :> 14) @@
  ("n" :> 15) @@ ("p" :> 16) @@ ("t" :> 17) @@ ("x" :> 18)

Tertiary == [c \in DOMAIN Code |-> IF c = "B" THEN 1 ELSE 0]

Max(a, b) == IF a >= b THEN a ELSE b
Min(a, b) == IF a <= b THEN a ELSE b

\* Lexicographic comparison of two strings by the weight w: -1, 0 or 1.
RECURSIVE CompareBy(_, _, _)
CompareBy(w, s, t) ==
  IF s = "" THEN (IF t = "" THEN 0 ELSE -1)
  ELSE IF t = "" THEN 1
  ELSE IF w[Head(s)] < w[Head(t)] THEN -1
  ELSE IF w[Head(s)] > w[Head(t)] THEN 1
  ELSE CompareBy(w, Tail(s), Tail(t))

\* The default comparison of Array.prototype.sort: by UTF-16 code units.
CodeUnitCompare(s, t) == CompareBy(Code, s, t)

\* a.localeCompare(b)
LocaleCompare(s, t) ==
  LET p == CompareBy(Primary, s, t)
  IN  IF p # 0 THEN p ELSE CompareBy(Tertiary, s, t)

StartsWith(s, p) == Len(p) <= Len(s) /\ SubSeq(s, 1, Len(p)) = p
EndsWith(s, p) == Len(p) <= Len(s) /\ SubSeq(s, Len(s) - Len(p) + 1, Len(s)) = p

\* s.split(sep) for a one-character separator: always at least one piece.
RECURSIVE SplitFrom(_, _, _)
SplitFrom(s, sep, cur) ==
  IF s = "" THEN <<cur>>
  ELSE IF Head(s) = sep THEN <<cur>> \o SplitFrom(Tail(s), sep, "")
  ELSE SplitFrom(Tail(s), sep, cur \o Head(s))

Split(s, sep) == SplitFrom(s, sep, "")

\* pieces.join(sep)
RECURSIVE Join(_, _)
Join(pieces, sep) ==
  IF pieces = <<>> THEN ""
  ELSE IF Len(pieces) = 1 THEN pieces[1]
  ELSE pieces[1] \o sep \o Join(Tail(pieces), sep)

\* arr.slice(n)
Slice(arr, n) == SubSeq(arr, n + 1, Len(arr))

\* Mutant of Substring: the end position is included.
SubstringInclusive(s, a, b) ==
  LET ca == Min(Max(a, 0), Len(s))
      cb == Min(Max(b + 1, 0), Len(s))
  IN  SubSeq(s, Min(ca, cb) + 1, Max(ca, cb))

\* s.substring(a, b), 0-based, with the clamping and swapping of the language.
Substring(s, a, b) ==
  LET ca == Min(Max(a, 0), Len(s))
      cb == Min(Max(b, 0), Len(s))
  IN  SubSeq(s, Min(ca, cb) + 1, Max(ca, cb))

\* s.indexOf(sub): 0-based position of the first occurrence, or -1.
IndexOf(s, sub) ==
  LET hits == {i \in 0..(Len(s) - Len(sub)) : SubSeq(s, i + 1, i + Len(sub)) = sub}
  IN  IF hits = {} THEN -1 ELSE CHOOSE i \in hits : \A j \in hits : i <= j

IsSpace(c) == c \in {" ", NL}

\* s.trim()
RECURSIVE TrimStart(_)
TrimStart(s) == IF s # "" /\ IsSpace(Head(s)) THEN TrimStart(Tail(s)) ELSE s

RECURSIVE TrimEnd(_)
TrimEnd(s) ==
  IF s # "" /\ IsSpace(SubSeq(s, Len(s), Len(s)))
  THEN TrimEnd(SubSeq(s, 1, Len(s) - 1))
  ELSE s

Trim(s) == TrimEnd(TrimStart(s))

\* ------------------------------------------------------------------------
\* Assets
\* ------------------------------------------------------------------------
\* A value the code may leave null or undefined is a sequence of at most one
\* element: Null, or Some(v).
Null == <<>>
Some(v) == <<v>>

\* !x for a string-or-null x
Falsy(x) == x = Null \/ x = Some("")

SourceImage(fileName, base64, mimeType) ==
  [fileName |-> fileName, base64 |-> base64, mimeType |-> mimeType]

TextFile(name, content) == [name |-> name, content |-> content]

\* A Record<string, SourceImage> is the sequence of its entries in insertion
\* order; no two entries share a fileName.
Keys(images) == [i \in 1..Len(images) |-> images[i].fileName]

\* map[key]: the entry, or undefined.
Lookup(images, key) ==
  IF \E i \in 1..Len(images) : images[i].fileName = key
  THEN Some(images[CHOOSE i \in 1..Len(images) : images[i].fileName = key])
  ELSE Null

DotTxt == ".txt"

\* ------------------------------------------------------------------------
\* handleUpload: the assembled script (hs4000.txt)
\* ------------------------------------------------------------------------
RECURSIVE InsertKey(_, _)
InsertKey(sorted, k) ==
  IF sorted = <<>> THEN <<k>>
  ELSE IF CodeUnitCompare(k, Head(sorted)) < 0 THEN <<k>> \o sorted
  ELSE <<Head(sorted)>> \o InsertKey(Tail(sorted), k)

RECURSIVE SortKeys(_)
SortKeys(keys) ==
  IF keys = <<>> THEN <<>>
  ELSE InsertKey(SortKeys(SubSeq(keys, 1, Len(keys) - 1)), keys[Len(keys)])

\* Mutant of SortedImageKeys: the keys in the map's own order.
UnsortedImageKeys(tempProcessed) == Keys(tempProcessed)

\* Object.keys(tempProcessed).sort()
SortedImageKeys(tempProcessed) == SortKeys(Keys(tempProcessed))

\* fileName.split('.').shift() || ""
Base(fileName) == Split(fileName, ".")[1]

\* Mutant of FindText: without a match, the first text is taken.
FindTextOrFirst(texts, base) ==
  LET hits == {i \in 1..Len(texts) :
                 StartsWith(texts[i].name, base) /\ EndsWith(texts[i].name, DotTxt)}
  IN  IF hits = {} THEN (IF texts = <<>> THEN 0 ELSE 1)
      ELSE CHOOSE i \in hits : \A j \in hits : i <= j

\* texts.find(t => t.name.startsWith(base) && t.name.endsWith('.txt')):
\* the position of the first match, 0 when there is none.
FindText(texts, base) ==
  LET hits == {i \in 1..Len(texts) :
                 StartsWith(texts[i].name, base) /\ EndsWith(texts[i].name, DotTxt)}
  IN  IF hits = {} THEN 0 ELSE CHOOSE i \in hits : \A j \in hits : i <= j

\* Mutant of FrameLines: an off-by-one line count and index.
FrameLinesOffByOne(imageKey, tempTexts) ==
  LET t == FindText(tempTexts, Base(imageKey))
  IN  IF t = 0 THEN <<>>
      ELSE LET lines == Split(tempTexts[t].content, NL)
           IN  IF Len(lines) >= 3 THEN <<lines[3]>> ELSE <<>>

\* One iteration of the assembly loop: what the frame pushes to hs4000Lines.
FrameLines(imageKey, tempTexts) ==
  LET t == FindText(tempTexts, Base(imageKey))
  IN  IF t = 0 THEN <<>>
      ELSE LET lines == Split(tempTexts[t].content, NL)
           IN  IF Len(lines) >= 4 THEN <<lines[4]>> ELSE <<>>

RECURSIVE Hs4000Lines(_, _)
Hs4000Lines(sortedKeys, tempTexts) ==
  IF sortedKeys = <<>> THEN <<>>
  ELSE FrameLines(Head(sortedKeys), tempTexts) \o Hs4000Lines(Tail(sortedKeys), tempTexts)

Hs4000Content(tempProcessed, tempTexts) ==
  Join(Hs4000Lines(SortedImageKeys(tempProcessed), tempTexts), NL)

\* ------------------------------------------------------------------------
\* processProductionRun: the frame order
\* ------------------------------------------------------------------------
RECURSIVE InsertImage(_, _)
InsertImage(sorted, img) ==
  IF sorted = <<>> THEN <<img>>
  ELSE IF LocaleCompare(img.fileName, Head(sorted).fileName) < 0 THEN <<img>> \o sorted
  ELSE <<Head(sorted)>> \o InsertImage(Tail(sorted), img)

RECURSIVE SortImages(_)
SortImages(images) ==
  IF images = <<>> THEN <<>>
  ELSE InsertImage(SortImages(SubSeq(images, 1, Len(images) - 1)), images[Len(images)])

\* Object.values(processedImages).sort((a, b) => a.fileName.localeCompare(b.fileName))
AllImages(processedImages) == SortImages(processedImages)

\* ------------------------------------------------------------------------
\* The generative service (ai.models.generateContent) as its callers see it
\* ------------------------------------------------------------------------
\* A call raises, or answers with a text (possibly missing or empty) and
\* output parts (possibly missing).
Raise == [raise |-> TRUE, text |-> Null, parts |-> Null]
TextResponse(t) == [raise |-> FALSE, text |-> t, parts |-> Null]
PartsResponse(ps) == [raise |-> FALSE, text |-> Null, parts |-> ps]

TextPart(t) == [text |-> Some(t), inlineData |-> Null]
InlinePart(data, mimeType) ==
  [text |-> Null, inlineData |-> Some([data |-> data, mimeType |-> mimeType])]

\* What a function call comes to: a returned value, or an exception.
Returned(v) == [threw |-> FALSE, value |-> v]
Thrown == [threw |-> TRUE]

\* Mutant of Catch: the exception is let through.
Rethrow(attempt, fallback) == attempt

\* try { return attempt } catch (error) { return fallback }
Catch(attempt, fallback) == IF attempt.threw THEN Returned(fallback) ELSE attempt

ScriptExcerptCap == 15000
IdentifierBibleCap == 8000
SynthContextCap == 1500
SynthBibleCap == 1000

\* createCharacterBible: the prompt's variable parts.
BiblePrompt(filenames, fullScriptContent) ==
  [assetList     |-> Join(filenames, ", "),
   scriptExcerpt |-> Substring(fullScriptContent, 0, ScriptExcerptCap)]

\* createCharacterBible, from the call's response on.
CreateCharacterBible(response) ==
  Catch(IF response.raise THEN Thrown
        ELSE Returned(IF Falsy(response.text)
                      THEN "Character Bible generation failed."
                      ELSE response.text[1]),
        "Error creating Character Bible.")

\* analyzeSceneImage, from the call's response on.
AnalyzeSceneImage(response) ==
  Catch(IF response.raise THEN Thrown
        ELSE Returned(IF Falsy(response.text)
                      THEN "Visual analysis unavailable."
                      ELSE response.text[1]),
        "Image analysis failed.")

\* The documents the identifier's call answers with in this model.
DocKnownAvatar ==
  "{\"characterName\":\"Boss\",\"avatarFilename\":\"b.png\",\"otherCharacters\":[\"Aide\"],\"reasoning\":\"r\"}"
DocUnknownAvatar ==
  "{\"characterName\":\"Boss\",\"avatarFilename\":\"x.png\",\"reasoning\":\"r\"}"
DocNoFields == "{}"
DocNull == "null"
DocNotJson == "Sure! The subject is Boss."

JsonObject(characterName, avatarFilename, otherCharacters) ==
  [null |-> FALSE, characterName |-> characterName,
   avatarFilename |-> avatarFilename, otherCharacters |-> otherCharacters]
JsonNull == [null |-> TRUE, characterName |-> Null,
             avatarFilename |-> Null, otherCharacters |-> Null]

\* JSON.parse on those documents; any other text is a SyntaxError.
JsonParse(text) ==
  CASE text = DocKnownAvatar ->
         Returned(JsonObject(Some("Boss"), Some("b.png"), Some(<<"Aide">>)))
    [] text = DocUnknownAvatar ->
         Returned(JsonObject(Some("Boss"), Some("x.png"), Null))
    [] text = DocNoFields -> Returned(JsonObject(Null, Null, Null))
    [] text = DocNull -> Returned(JsonNull)
    [] OTHER -> Thrown

\* identifyConsistentCharacter: the prompt's variable parts.
IdentifyPrompt(sceneText, sceneVisualAnalysis, characterBible) ==
  [sceneText |-> sceneText, visual |-> sceneVisualAnalysis,
   bible |-> Substring(characterBible, 0, IdentifierBibleCap)]

\* Mutant of IdentifyConsistentCharacter: an absent name is left empty.
IdentifyWithoutDefaults(response) ==
  Catch(IF response.raise THEN Thrown
        ELSE LET parsed == JsonParse(IF Falsy(response.text) THEN "{}"
                                     ELSE response.text[1])
             IN  IF parsed.threw \/ parsed.value.null THEN Thrown
                 ELSE Returned(
                        [characterName |->
                           IF Falsy(parsed.value.characterName) THEN ""
                           ELSE parsed.value.characterName[1],
                         avatarFilename |-> parsed.value.avatarFilename,
                         otherCharacters |-> parsed.value.otherCharacters]),
        [characterName |-> "Unknown", avatarFilename |-> Null, otherCharacters |-> Null])

\* identifyConsistentCharacter, from the call's response on.
IdentifyConsistentCharacter(response) ==
  Catch(IF response.raise THEN Thrown
        ELSE LET parsed == JsonParse(IF Falsy(response.text) THEN "{}"
                                     ELSE response.text[1])
             IN  IF parsed.threw THEN Thrown
                 \* a property read of null is a TypeError
                 ELSE IF parsed.value.null THEN Thrown
                 ELSE LET result == parsed.value
                      IN  Returned(
                            [characterName |->
                               IF Falsy(result.characterName) THEN "Unknown"
                               ELSE result.characterName[1],
                             avatarFilename |->
                               IF Falsy(result.avatarFilename) THEN Null
                               ELSE result.avatarFilename,
                             otherCharacters |->
                               IF result.otherCharacters = Null THEN Some(<<>>)
                               ELSE result.otherCharacters]),
        [characterName |-> "Unknown", avatarFilename |-> Null, otherCharacters |-> Null])

\* generateRejuvenatedPrompt: the prompt's variable parts.
SynthPrompt(sceneText, characterName, bible, style, visualAnalysis, fullScriptSnippet, storyMap) ==
  [plot |-> IF Falsy(storyMap) THEN "Standard narrative arc." ELSE storyMap[1],
   sceneText |-> sceneText,
   fullContext |-> Substring(fullScriptSnippet, 0, SynthContextCap),
   characterName |-> characterName,
   bibleTraits |-> Substring(bible, 0, SynthBibleCap),
   visualAnalysis |-> visualAnalysis,
   style |-> style]

\* generateRejuvenatedPrompt, from the call's response on.
GenerateRejuvenatedPrompt(response) ==
  Catch(IF response.raise THEN Thrown
        ELSE Returned(IF response.text = Null \/ Trim(response.text[1]) = ""
                      THEN "Masterpiece film frame, cinematic lighting, ultra-detailed characters."
                      ELSE Trim(response.text[1])),
        "Cinematic film frame, professional lighting.")

\* Mutant of RevisedImageParts: the images are sent ahead of their texts.
ImagesFirstParts(prompt, avatarBase64, avatarMime, sceneBase64, sceneMime) ==
  IF ~Falsy(avatarBase64) /\ ~Falsy(avatarMime)
  THEN << InlinePart(avatarBase64[1], avatarMime[1]),
          InlinePart(sceneBase64, sceneMime),
          TextPart("[PROMPT] " \o prompt),
          TextPart("\n\n[INSTRUCTION] This is an IDENTITY TRANSPLANT."),
          TextPart("\n\nAVATAR (Identity Source):"),
          TextPart("\n\nSCENE (Composition Source):") >>
  ELSE << InlinePart(sceneBase64, sceneMime),
          TextPart("TASK: CINEMATIC RE-RENDER. " \o prompt) >>

\* generateRevisedImage: the parts of the request.
RevisedImageParts(prompt, avatarBase64, avatarMime, sceneBase64, sceneMime) ==
  IF ~Falsy(avatarBase64) /\ ~Falsy(avatarMime)
  THEN << TextPart("[PROMPT] " \o prompt),
          TextPart("\n\n[INSTRUCTION] This is an IDENTITY TRANSPLANT. Use the AVATAR image as the *only* source for the person's identity. Use the SCENE image for pose, lighting, and composition. Replace the person in the SCENE with the person from the AVATAR."),
          TextPart("\n\nAVATAR (Identity Source):"),
          InlinePart(avatarBase64[1], avatarMime[1]),
          TextPart("\n\nSCENE (Composition Source):"),
          InlinePart(sceneBase64, sceneMime) >>
  ELSE << TextPart("TASK: CINEMATIC RE-RENDER.\n           - Enhance the following image based on this style: "
                   \o prompt
                   \o "\n           - OUTPUT: A single, high-fidelity, color film frame."),
          InlinePart(sceneBase64, sceneMime) >>

\* Mutant of FirstInline: the last such part.
LastInline(partsOut) ==
  LET hits == {i \in 1..Len(partsOut) :
                 partsOut[i].inlineData # Null /\ partsOut[i].inlineData[1].data # ""}
  IN  IF hits = {} THEN 0 ELSE CHOOSE i \in hits : \A j \in hits : i >= j

\* The first output part that carries inline data, 0 when there is none.
FirstInline(partsOut) ==
  LET hits == {i \in 1..Len(partsOut) :
                 partsOut[i].inlineData # Null /\ partsOut[i].inlineData[1].data # ""}
  IN  IF hits = {} THEN 0 ELSE CHOOSE i \in hits : \A j \in hits : i <= j

\* generateRevisedImage, from the call's response on: { imageBase64 }.
GenerateRevisedImage(response) ==
  Catch(IF response.raise THEN Thrown
        ELSE Returned(
               [imageBase64 |->
                  IF response.parts = Null THEN Null
                  ELSE LET partsOut == response.parts[1]
                       IN  IF FirstInline(partsOut) = 0 THEN Null
                           ELSE Some(partsOut[FirstInline(partsOut)].inlineData[1].data)]),
        [imageBase64 |-> Null])

\* ------------------------------------------------------------------------
\* The App component
\* ------------------------------------------------------------------------
VARIABLES
  stage, isUploading, error,                     \* useState: stage management
  avatars, processedImages, textFiles,           \* useState: data storage
  fullScript, storyMap, style,
  characterBible, results,                       \* useState: mapping & bible
  logs,                                          \* useState: the console lines
  effectPending,   \* a commit changed [stage, fullScript, characterBible]
  upload,          \* handleUpload awaiting the decoding of its archives
  nUploads,        \* uploads started so far
  bibleCalls,      \* runAnalysis instances awaiting createCharacterBible
  bibleCount,      \* createCharacterBible calls issued since the last upload began
  runs,            \* processProductionRun instances, each awaiting a call
  downloads,       \* the file names handed to downloadFile, in order
  trial, outcome,  \* a single call of one service function, and what it came to
  served,          \* history: the last answer a production run has received
  issued           \* history: the per-frame calls made so far, with their number

appVars == <<stage, isUploading, error, avatars, processedImages, textFiles,
             fullScript, storyMap, style, characterBible, results, logs,
             effectPending, upload, nUploads, bibleCalls, bibleCount, runs, downloads>>

DefaultStyle == "cinematic film grain, high-key lighting, vibrant reds and deep blacks."

\* name.toLowerCase() on the characters of the model
RECURSIVE ToLowerCase(_)
ToLowerCase(s) ==
  IF s = "" THEN ""
  ELSE (IF Head(s) = "B" THEN "b" ELSE Head(s)) \o ToLowerCase(Tail(s))

\* texts.find(t => t.name.toLowerCase() === name)
FindNamed(texts, name) ==
  LET hits == {i \in 1..Len(texts) : ToLowerCase(texts[i].name) = name}
  IN  IF hits = {} THEN Null
      ELSE Some(texts[CHOOSE i \in hits : \A j \in hits : i <= j])

\* What the archives of one upload decode to: the images of the "avatars"
\* archives, the images and the texts of the "processed" archives.
Img(fileName) == SourceImage(fileName, "base64 of " \o fileName, "image/png")

SceneFive == "INT. OFFICE\nBoss enters.\n-\nhi there\nBoss sits."
SceneFour == "EXT. ROOF\nNight.\n-\nby the bay"
SceneBlank == "INT. HALL\nSilence.\n-\n \n"

ArchBlank ==
  [avatars |-> <<>>,
   processed |-> <<Img("a.png")>>,
   texts |-> <<TextFile("a.txt", SceneBlank)>>]
ArchOne ==
  [avatars |-> <<Img("b.png")>>,
   processed |-> <<Img("1.png"), Img("a.png")>>,
   texts |-> <<TextFile("a.txt", SceneFive)>>]
ArchTwo ==
  [avatars |-> <<Img("b.png")>>,
   processed |-> <<Img("a.png"), Img("B.png")>>,
   texts |-> <<TextFile("B.txt", SceneFour), TextFile("a.txt", SceneFive),
               TextFile("story.txt", "Boss takes over.")>>]

Archives == {ArchBlank, ArchOne, ArchTwo}

Init ==
  /\ stage = "IDLE" /\ isUploading = FALSE /\ error = Null
  /\ avatars = <<>> /\ processedImages = <<>> /\ textFiles = <<>>
  /\ fullScript = Null /\ storyMap = Null /\ style = DefaultStyle
  /\ characterBible = "" /\ results = <<>> /\ logs = <<>>
  /\ effectPending = FALSE
  /\ upload = Null /\ nUploads = 0
  /\ bibleCalls = <<>> /\ bibleCount = 0
  /\ runs = <<>> /\ downloads = <<>>
  /\ trial = Null /\ outcome = Null
  /\ served = Null /\ issued = EmptyBag

\* handleUpload up to its first await. The file input is rendered only in
\* stage IDLE and is disabled while isUploading.
UploadStart(archive) ==
  /\ ~effectPending
  /\ stage = "IDLE" /\ ~isUploading
  /\ nUploads < MaxUploads
  /\ isUploading' = TRUE
  /\ error' = Null
  /\ stage' = "ANALYZING"
  /\ logs' = Append(logs, "DECODING ARCHIVES...")
  /\ upload' = Some(archive)
  /\ nUploads' = nUploads + 1
  /\ bibleCount' = 0
  /\ effectPending' = TRUE
  /\ UNCHANGED <<trial, outcome, served, issued, avatars, processedImages, textFiles, fullScript, storyMap, style,
                 characterBible, results, bibleCalls, runs, downloads>>

\* handleUpload after the archives are decoded: the script is assembled and
\* downloaded, the state is committed.
UploadCommit ==
  /\ ~effectPending
  /\ upload # Null
  /\ LET tempAvatars == upload[1].avatars
         tempProcessed == upload[1].processed
         tempTexts == upload[1].texts
         hs4000Content == Hs4000Content(tempProcessed, tempTexts)
         story == FindNamed(tempTexts, "story.txt")
         globalStyle == FindNamed(tempTexts, "style.txt")
     IN  /\ downloads' = Append(downloads, "hs4000.txt")
         /\ style' = IF globalStyle # Null THEN globalStyle[1].content ELSE style
         /\ storyMap' = IF story # Null THEN story ELSE storyMap
         /\ avatars' = tempAvatars
         /\ processedImages' = tempProcessed
         /\ textFiles' = tempTexts
         /\ fullScript' = Some(TextFile("hs4000.txt", hs4000Content))
         /\ logs' = logs \o
              << "DOWNLOADED: hs4000.txt",
                 "LOADED: " \o ToString(Len(tempProcessed)) \o " FRAMES, "
                   \o ToString(Len(tempAvatars)) \o " AVATARS." >>
  /\ isUploading' = FALSE
  /\ upload' = Null
  \* setFullScript is given a new object: the dependency always changes
  /\ effectPending' = TRUE
  /\ UNCHANGED <<trial, outcome, served, issued, stage, error, characterBible, results, nUploads, bibleCalls,
                 bibleCount, runs>>

\* handleUpload when the decoding throws: the catch block.
UploadFail ==
  /\ ~effectPending
  /\ upload # Null
  /\ error' = Some("ARCHIVE READ ERROR.")
  /\ logs' = Append(logs, "CRITICAL: Error: Corrupted zip")
  /\ stage' = "IDLE"
  /\ isUploading' = FALSE
  /\ upload' = Null
  /\ effectPending' = (stage # "IDLE")
  /\ UNCHANGED <<trial, outcome, served, issued, avatars, processedImages, textFiles, fullScript, storyMap, style,
                 characterBible, results, nUploads, bibleCalls, bibleCount, runs,
                 downloads>>

\* The answers of the generative service in this model.
BibleResponses ==
  {Raise, TextResponse(Null), TextResponse(Some("")),
   TextResponse(Some("BIBLE: Boss = b.png, imposing."))}
AnalysisResponses ==
  {Raise, TextResponse(Null), TextResponse(Some("")),
   TextResponse(Some("Low-key lighting, subject seated."))}
IdentifyResponses ==
  {Raise, TextResponse(Null), TextResponse(Some(""))} \cup
  {TextResponse(Some(d)) :
     d \in {DocKnownAvatar, DocUnknownAvatar, DocNoFields, DocNull, DocNotJson}}
SynthResponses ==
  {Raise, TextResponse(Null), TextResponse(Some(" \n")),
   TextResponse(Some(" Boss, cold smirk, 35mm grain.\n"))}
ImageResponses ==
  {Raise, PartsResponse(Null),
   PartsResponse(Some(<<TextPart("I cannot render this.")>>)),
   PartsResponse(Some(<<TextPart("Here it is."), InlinePart("", "image/png"),
                        InlinePart("PNG-1", "image/png"),
                        InlinePart("PNG-2", "image/png")>>))}

\* The answers drawn while the whole component runs: one failure and one
\* success of each call.
RunBibleResponses == {Raise, TextResponse(Some("BIBLE: Boss = b.png, imposing."))}
RunAnalysisResponses == {Raise, TextResponse(Some("Low-key lighting, subject seated."))}
RunIdentifyResponses == {TextResponse(Some(DocNotJson)), TextResponse(Some(DocKnownAvatar))}
RunSynthResponses == {Raise, TextResponse(Some(" Boss, cold smirk, 35mm grain.\n"))}
RunImageResponses ==
  {PartsResponse(Some(<<TextPart("I cannot render this.")>>)),
   PartsResponse(Some(<<TextPart("Here it is."), InlinePart("PNG-1", "image/png")>>))}

\* runAnalysis, run by the automation effect: the empty-script halt.
RunAnalysisHalt ==
  /\ effectPending
  /\ stage = "ANALYZING" /\ fullScript # Null
  /\ Trim(fullScript[1].content) = ""
  /\ error' = Some("GENERATED SCRIPT IS EMPTY. CANNOT CREATE BIBLE. PROCESS HALTED.")
  /\ stage' = "IDLE"
  /\ effectPending' = TRUE
  /\ UNCHANGED <<trial, outcome, served, issued, isUploading, avatars, processedImages, textFiles, fullScript,
                 storyMap, style, characterBible, results, logs, upload, nUploads,
                 bibleCalls, bibleCount, runs, downloads>>

\* runAnalysis, run by the automation effect, up to its await.
RunAnalysisCall ==
  /\ effectPending
  /\ stage = "ANALYZING" /\ fullScript # Null
  /\ Trim(fullScript[1].content) # ""
  /\ logs' = Append(logs, "GENERATING CHARACTER BIBLE FROM GENERATED SCRIPT...")
  /\ bibleCalls' = Append(bibleCalls,
       [fn |-> "createCharacterBible",
        args |-> [filenames |-> Keys(avatars), fullScript |-> fullScript[1].content]])
  /\ bibleCount' = bibleCount + 1
  /\ effectPending' = FALSE
  /\ UNCHANGED <<trial, outcome, served, issued, stage, isUploading, error, avatars, processedImages, textFiles,
                 fullScript, storyMap, style, characterBible, results, upload,
                 nUploads, runs, downloads>>

RemoveAt(seq, k) == SubSeq(seq, 1, k - 1) \o SubSeq(seq, k + 1, Len(seq))

\* runAnalysis after createCharacterBible has answered.
BibleReturns(k, response) ==
  /\ ~effectPending
  /\ k \in 1..Len(bibleCalls)
  /\ LET bible == CreateCharacterBible(response)
     IN  IF bible.threw
         THEN \* the promise of runAnalysis is rejected; nothing awaits it
              /\ bibleCalls' = RemoveAt(bibleCalls, k)
              /\ UNCHANGED <<stage, characterBible, logs, downloads, effectPending>>
         ELSE /\ bibleCalls' = RemoveAt(bibleCalls, k)
              /\ downloads' = Append(downloads, "bible.txt")
              /\ characterBible' = bible.value
              /\ logs' = logs \o << "DOWNLOADED: bible.txt",
                                    "BIBLE READY. PROCEEDING TO FULL PRODUCTION." >>
              /\ stage' = "PROCESSING"
              /\ effectPending' = (stage # "PROCESSING" \/ characterBible # bible.value)
  /\ UNCHANGED <<trial, outcome, served, issued, isUploading, error, avatars, processedImages, textFiles, fullScript,
                 storyMap, style, results, upload, nUploads, bibleCount, runs>>

\* ------------------------------------------------------------------------
\* processProductionRun
\* ------------------------------------------------------------------------
AnchorLen == 40
ContextBefore == 1000
ContextAfter == 3000

\* Mutant of ScriptContext: the window starts at the anchor.
ScriptContextFromAnchor(script, sceneTextSnippet) ==
  IF script = Null THEN ""
  ELSE LET content == script[1].content
           index == IndexOf(content, Substring(sceneTextSnippet, 0, AnchorLen))
       IN  IF index # -1
           THEN Substring(content, index, Min(Len(content), index + ContextAfter))
           ELSE ""

\* The localized script context of a frame.
ScriptContext(script, sceneTextSnippet) ==
  IF script = Null THEN ""
  ELSE LET content == script[1].content
           snippetStart == Substring(sceneTextSnippet, 0, AnchorLen)
           index == IndexOf(content, snippetStart)
       IN  IF index # -1
           THEN Substring(content, Max(0, index - ContextBefore),
                          Min(Len(content), index + ContextAfter))
           ELSE ""

\* tFile.content.split('\n').slice(3).join('\n')
SceneTextSnippet(content) == Join(Slice(Split(content, NL), 3), NL)

\* Mutant of AvatarFor: an unknown name falls back to the first avatar.
AvatarForFirst(mapping, avatarMap) ==
  IF Falsy(mapping.avatarFilename) \/ avatarMap = <<>> THEN Null
  ELSE IF Lookup(avatarMap, mapping.avatarFilename[1]) = Null THEN Some(avatarMap[1])
  ELSE Lookup(avatarMap, mapping.avatarFilename[1])

\* mapping.avatarFilename ? avatars[mapping.avatarFilename] : null
AvatarFor(mapping, avatarMap) ==
  IF Falsy(mapping.avatarFilename) THEN Null
  ELSE Lookup(avatarMap, mapping.avatarFilename[1])

\* mapping.otherCharacters || []
OtherCharactersArg(mapping) ==
  IF mapping.otherCharacters = Null THEN <<>> ELSE mapping.otherCharacters[1]

\* The arguments of generateRevisedImage:
\* (prompt, avatar?.base64 || null, avatar?.mimeType || null, img.base64, img.mimeType)
RevisionArgs(prompt, avatar, img) ==
  [prompt |-> prompt,
   avatarBase64 |-> IF avatar = Null \/ avatar[1].base64 = "" THEN Null
                    ELSE Some(avatar[1].base64),
   avatarMime |-> IF avatar = Null \/ avatar[1].mimeType = "" THEN Null
                  ELSE Some(avatar[1].mimeType),
   sceneBase64 |-> img.base64, sceneMime |-> img.mimeType]

NoMapping == [characterName |-> "", avatarFilename |-> Null, otherCharacters |-> Null]

\* History: the number of the commit that loaded the assets in the state (an
\* upload that is still being decoded, or whose decoding failed, has
\* committed nothing); every commit persists the assembled script.
LoadedUpload == Cardinality({n \in 1..Len(downloads) : downloads[n] = "hs4000.txt"})

\* A processProductionRun instance reads the state of the render whose effect
\* started it; its other fields are the locals of the loop.
NewRun ==
  [upload |-> LoadedUpload,
   allImages |-> AllImages(processedImages), textFiles |-> textFiles,
   fullScript |-> fullScript, characterBible |-> characterBible,
   avatars |-> avatars, style |-> style, storyMap |-> storyMap,
   i |-> 0, tFile |-> TextFile("", ""), sceneTextSnippet |-> "", scriptContext |-> "",
   visualAnalysis |-> "", mapping |-> NoMapping, avatar |-> Null, prompt |-> "",
   call |-> [fn |-> "", args |-> <<>>]]

\* The position of the first frame from position i on that has a text asset;
\* the frames before it are skipped by "continue".
RECURSIVE NextFrame(_, _)
NextFrame(run, i) ==
  IF i > Len(run.allImages) THEN i
  ELSE IF FindText(run.textFiles, Base(run.allImages[i].fileName)) = 0
       THEN NextFrame(run, i + 1)
       ELSE i

SkipLogs(run, i, j) ==
  [n \in 1..(j - i) |-> "SKIPPING: " \o run.allImages[i + n - 1].fileName \o " (NO CONTEXT)"]

\* The iteration for frame j up to its first await.
FrameStart(run, j) ==
  LET img == run.allImages[j]
      tFile == run.textFiles[FindText(run.textFiles, Base(img.fileName))]
      sceneTextSnippet == SceneTextSnippet(tFile.content)
  IN  [run EXCEPT
         !.i = j, !.tFile = tFile, !.sceneTextSnippet = sceneTextSnippet,
         !.scriptContext = ScriptContext(run.fullScript, sceneTextSnippet),
         !.visualAnalysis = "", !.mapping = NoMapping, !.avatar = Null, !.prompt = "",
         !.call = [fn |-> "analyzeSceneImage",
                   args |-> [base64 |-> img.base64, mimeType |-> img.mimeType]]]

\* History: one more call of fn for frame j of the run's upload.
Issue(run, j, fn) ==
  issued (+) SetToBag({[upload |-> run.upload, frame |-> run.allImages[j].fileName, fn |-> fn]})

\* History: the answer that resumes instance k.
Serve(k, response) ==
  Some([run |-> k, upload |-> runs[k].upload, frame |-> runs[k].allImages[runs[k].i].fileName,
        fn |-> runs[k].call.fn, response |-> response])

\* The loop of instance k of rs from position i on, after the lines in said
\* were logged: up to the next await, or to the end of the run.
Proceed(rs, k, i, said) ==
  LET run == rs[k]
      j == NextFrame(run, i)
  IN  IF j > Len(run.allImages)
      THEN /\ runs' = RemoveAt(rs, k)
           /\ stage' = "COMPLETE"
           /\ effectPending' = (stage # "COMPLETE")
           /\ logs' = logs \o said \o SkipLogs(run, i, j) \o <<"ALL SEQUENCES FINALIZED.">>
           /\ issued' = issued
      ELSE /\ runs' = [rs EXCEPT ![k] = FrameStart(run, j)]
           /\ issued' = Issue(run, j, "analyzeSceneImage")
           /\ stage' = stage
           /\ effectPending' = FALSE
           /\ logs' = logs \o said \o SkipLogs(run, i, j)

\* The catch block of an iteration.
FrameCatch(k) ==
  Proceed(runs, k, runs[k].i + 1,
          <<"CRITICAL ERROR [" \o runs[k].allImages[runs[k].i].fileName \o "]: Error">>)

\* processProductionRun, run by the automation effect, up to its first await.
ProcessProductionRun ==
  /\ effectPending
  /\ ~(stage = "ANALYZING" /\ fullScript # Null)
  /\ stage = "PROCESSING" /\ characterBible # ""
  /\ IF NewRun.allImages = <<>>
     THEN /\ logs' = logs \o << "LAUNCHING FULL PRODUCTION SEQUENCE...",
                                "NO IMAGES TO PROCESS. PRODUCTION COMPLETE." >>
          /\ stage' = "COMPLETE"
          /\ effectPending' = TRUE
          /\ UNCHANGED <<runs, issued>>
     ELSE Proceed(Append(runs, NewRun), Len(runs) + 1, 1,
                  <<"LAUNCHING FULL PRODUCTION SEQUENCE...">>)
  /\ UNCHANGED <<trial, outcome, served, isUploading, error, avatars, processedImages, textFiles, fullScript,
                 storyMap, style, characterBible, results, upload, nUploads,
                 bibleCalls, bibleCount, downloads>>

\* The automation effect when neither branch applies.
EffectIdle ==
  /\ effectPending
  /\ ~(stage = "ANALYZING" /\ fullScript # Null)
  /\ ~(stage = "PROCESSING" /\ characterBible # "")
  /\ effectPending' = FALSE
  /\ UNCHANGED <<trial, outcome, served, issued, stage, isUploading, error, avatars, processedImages, textFiles,
                 fullScript, storyMap, style, characterBible, results, logs, upload,
                 nUploads, bibleCalls, bibleCount, runs, downloads>>

frameUnchanged == <<trial, outcome, isUploading, error, avatars, processedImages, textFiles, fullScript,
                    storyMap, style, characterBible, upload, nUploads, bibleCalls,
                    bibleCount>>

\* analyzeSceneImage has answered; identifyConsistentCharacter is called.
AnalyzeReturns(k, response) ==
  /\ ~effectPending
  /\ k \in 1..Len(runs) /\ runs[k].call.fn = "analyzeSceneImage"
  /\ LET run == runs[k]
         visualAnalysis == AnalyzeSceneImage(response)
     IN  IF visualAnalysis.threw THEN FrameCatch(k)
         ELSE /\ runs' = [runs EXCEPT ![k] =
                   [run EXCEPT
                      !.visualAnalysis = visualAnalysis.value,
                      !.call = [fn |-> "identifyConsistentCharacter",
                                args |-> [sceneText |-> run.sceneTextSnippet,
                                          sceneVisualAnalysis |-> visualAnalysis.value,
                                          characterBible |-> run.characterBible]]]]
              /\ issued' = Issue(run, run.i, "identifyConsistentCharacter")
              /\ UNCHANGED <<stage, effectPending, logs>>
  /\ served' = Serve(k, response)
  /\ UNCHANGED <<results, downloads>>
  /\ UNCHANGED frameUnchanged

\* identifyConsistentCharacter has answered; the avatar is looked up and
\* generateRejuvenatedPrompt is called.
IdentifyReturns(k, response) ==
  /\ ~effectPending
  /\ k \in 1..Len(runs) /\ runs[k].call.fn = "identifyConsistentCharacter"
  /\ LET run == runs[k]
         mapping == IdentifyConsistentCharacter(response)
     IN  IF mapping.threw THEN FrameCatch(k)
         ELSE /\ runs' = [runs EXCEPT ![k] =
                   [run EXCEPT
                      !.mapping = mapping.value,
                      !.avatar = AvatarFor(mapping.value, run.avatars),
                      !.call = [fn |-> "generateRejuvenatedPrompt",
                                args |-> [sceneText |-> run.sceneTextSnippet,
                                          characterName |-> mapping.value.characterName,
                                          otherCharacters |->
                                            OtherCharactersArg(mapping.value),
                                          bible |-> run.characterBible,
                                          style |-> run.style,
                                          visualAnalysis |-> run.visualAnalysis,
                                          fullScriptSnippet |-> run.scriptContext,
                                          storyMap |-> IF run.storyMap = Null
                                                         \/ run.storyMap[1].content = ""
                                                       THEN Null
                                                       ELSE Some(run.storyMap[1].content)]]]]
              /\ issued' = Issue(run, run.i, "generateRejuvenatedPrompt")
              /\ UNCHANGED <<stage, effectPending, logs>>
  /\ served' = Serve(k, response)
  /\ UNCHANGED <<results, downloads>>
  /\ UNCHANGED frameUnchanged

\* generateRejuvenatedPrompt has answered; generateRevisedImage is called.
SynthReturns(k, response) ==
  /\ ~effectPending
  /\ k \in 1..Len(runs) /\ runs[k].call.fn = "generateRejuvenatedPrompt"
  /\ LET run == runs[k]
         prompt == GenerateRejuvenatedPrompt(response)
     IN  IF prompt.threw THEN FrameCatch(k)
         ELSE /\ runs' = [runs EXCEPT ![k] =
                   [run EXCEPT
                      !.prompt = prompt.value,
                      !.call = [fn |-> "generateRevisedImage",
                                args |-> RevisionArgs(prompt.value, run.avatar,
                                                      run.allImages[run.i])]]]
              /\ issued' = Issue(run, run.i, "generateRevisedImage")
              /\ UNCHANGED <<stage, effectPending, logs>>
  /\ served' = Serve(k, response)
  /\ UNCHANGED <<results, downloads>>
  /\ UNCHANGED frameUnchanged

\* generateRevisedImage has answered: the frame's outputs are downloaded and
\* its result appended, or its failure logged; the loop goes on.
GenerateReturns(k, response) ==
  /\ ~effectPending
  /\ k \in 1..Len(runs) /\ runs[k].call.fn = "generateRevisedImage"
  /\ LET run == runs[k]
         img == run.allImages[run.i]
         base == Base(img.fileName)
         gen == GenerateRevisedImage(response)
     IN  IF gen.threw
         THEN FrameCatch(k) /\ UNCHANGED <<results, downloads>>
         ELSE IF gen.value.imageBase64 # Null
         THEN LET result == [originalName |-> img.fileName,
                             newName |-> base \o "_rejuvenated.png",
                             base64 |-> gen.value.imageBase64[1],
                             prompt |-> run.prompt]
              IN  /\ downloads' = downloads \o <<base \o "_meta.txt", result.newName>>
                  /\ results' = Append(results, result)
                  /\ Proceed(runs, k, run.i + 1, <<"DOWNLOADED: " \o result.newName>>)
         ELSE /\ Proceed(runs, k, run.i + 1,
                         <<"REVISION FAILED FOR " \o img.fileName \o ". SKIPPING.">>)
              /\ UNCHANGED <<results, downloads>>
  /\ served' = Serve(k, response)
  /\ UNCHANGED frameUnchanged

Next ==
  \/ \E archive \in Archives : UploadStart(archive)
  \/ UploadCommit
  \/ UploadFail
  \/ RunAnalysisHalt
  \/ RunAnalysisCall
  \/ ProcessProductionRun
  \/ EffectIdle
  \/ \E k \in 1..Len(bibleCalls), response \in RunBibleResponses : BibleReturns(k, response)
  \/ \E k \in 1..Len(runs), response \in RunAnalysisResponses : AnalyzeReturns(k, response)
  \/ \E k \in 1..Len(runs), response \in RunIdentifyResponses : IdentifyReturns(k, response)
  \/ \E k \in 1..Len(runs), response \in RunSynthResponses : SynthReturns(k, response)
  \/ \E k \in 1..Len(runs), response \in RunImageResponses : GenerateReturns(k, response)

vars == <<appVars, trial, outcome, served, issued>>

Spec == Init /\ [][Next]_vars

\* ------------------------------------------------------------------------
\* One upload, from the choice of its archives to the start of production,
\* over every small set of frames and text assets
\* ------------------------------------------------------------------------
FramePool == {"a.png", "B.png", "a1.png", "a.b.png"}

TextPool ==
  {TextFile("a.txt", SceneFive), TextFile("B.txt", SceneFour),
   TextFile("a1.txt", "EXT. BAY\nDawn.\n-"), TextFile("a.b.txt", SceneBlank),
   TextFile("a.md", "# notes\n\n\nnot a scene\n")}

\* The sequences of at most n distinct elements of S.
RECURSIVE Arrangements(_, _)
Arrangements(S, n) ==
  IF n = 0 THEN {<<>>}
  ELSE LET shorter == Arrangements(S, n - 1)
       IN  shorter \cup
           {Append(q, x) : <<q, x>> \in
              {<<q, x>> \in shorter \X S : \A i \in 1..Len(q) : q[i] # x}}

AsmArchives ==
  {[avatars |-> <<Img("b.png")>>,
    processed |-> [i \in 1..Len(names) |-> Img(names[i])],
    texts |-> texts] :
     names \in Arrangements(FramePool, MaxFrames),
     texts \in Arrangements(TextPool, MaxTexts)}

FirstUpload(archive) == nUploads = 0 /\ UploadStart(archive)

NextAsm ==
  \/ \E archive \in AsmArchives : FirstUpload(archive)
  \/ UploadCommit
  \/ RunAnalysisHalt
  \/ RunAnalysisCall
  \/ \E k \in 1..Len(bibleCalls), response \in RunBibleResponses : BibleReturns(k, response)
  \/ ProcessProductionRun
  \/ EffectIdle

SpecAsm == Init /\ [][NextAsm]_vars

\* ------------------------------------------------------------------------
\* One call of one service function, over every answer of the service
\* ------------------------------------------------------------------------
ResponsesOf(fn) ==
  CASE fn = "createCharacterBible" -> BibleResponses
    [] fn = "analyzeSceneImage" -> AnalysisResponses
    [] fn = "identifyConsistentCharacter" -> IdentifyResponses
    [] fn = "generateRejuvenatedPrompt" -> SynthResponses
    [] fn = "generateRevisedImage" -> ImageResponses

\* The avatar maps a frame is resolved against: none, one with the name the
\* identifier may answer, that one with an empty payload, and others.
TrialAvatars ==
  { <<>>, <<Img("b.png")>>, <<SourceImage("b.png", "", "image/png")>>,
    <<Img("c.png"), Img("b.png")>> }

TrialPrompts ==
  {"Boss, cold smirk, 35mm grain.", "Cinematic film frame, professional lighting."}

Trials ==
  [fn : {"createCharacterBible", "analyzeSceneImage", "generateRejuvenatedPrompt"},
   response : BibleResponses \cup AnalysisResponses \cup SynthResponses,
   avatars : {<<>>}, prompt : {""}, avatarBase64 : {Null}, avatarMime : {Null}]
  \cup
  [fn : {"identifyConsistentCharacter"}, response : IdentifyResponses,
   avatars : TrialAvatars, prompt : TrialPrompts,
   avatarBase64 : {Null}, avatarMime : {Null}]
  \cup
  [fn : {"generateRevisedImage"}, response : ImageResponses,
   avatars : {<<>>}, prompt : TrialPrompts,
   avatarBase64 : {Null, Some(""), Some("base64 of b.png")},
   avatarMime : {Null, Some("image/png")}]

TrialScene == Img("a.png")

InitSvc ==
  /\ stage = "IDLE" /\ isUploading = FALSE /\ error = Null
  /\ avatars = <<>> /\ processedImages = <<>> /\ textFiles = <<>>
  /\ fullScript = Null /\ storyMap = Null /\ style = DefaultStyle
  /\ characterBible = "" /\ results = <<>> /\ logs = <<>>
  /\ effectPending = FALSE
  /\ upload = Null /\ nUploads = 0
  /\ bibleCalls = <<>> /\ bibleCount = 0
  /\ runs = <<>> /\ downloads = <<>>
  /\ trial \in {Some(t) : t \in {t \in Trials : t.response \in ResponsesOf(t.fn)}}
  /\ outcome = Null
  /\ served = Null /\ issued = EmptyBag

NoOutcome ==
  [otherCharacters |-> <<>>, avatar |-> Null,
   args |-> RevisionArgs("", Null, TrialScene), parts |-> <<>>]

\* One of the text functions is called and answers.
SvcText ==
  /\ trial # Null /\ outcome = Null
  /\ trial[1].fn \in {"createCharacterBible", "analyzeSceneImage", "generateRejuvenatedPrompt"}
  /\ outcome' = Some(
       NoOutcome @@
       [result |-> CASE trial[1].fn = "createCharacterBible" ->
                          CreateCharacterBible(trial[1].response)
                     [] trial[1].fn = "analyzeSceneImage" ->
                          AnalyzeSceneImage(trial[1].response)
                     [] trial[1].fn = "generateRejuvenatedPrompt" ->
                          GenerateRejuvenatedPrompt(trial[1].response)])
  /\ UNCHANGED <<appVars, trial, served, issued>>

\* identifyConsistentCharacter is called and answers; the caller resolves
\* the avatar and builds the request of generateRevisedImage.
SvcIdentify ==
  /\ trial # Null /\ outcome = Null
  /\ trial[1].fn = "identifyConsistentCharacter"
  /\ LET mapping == IdentifyConsistentCharacter(trial[1].response)
     IN  outcome' = Some(
           IF mapping.threw THEN NoOutcome @@ [result |-> mapping]
           ELSE LET avatar == AvatarFor(mapping.value, trial[1].avatars)
                    args == RevisionArgs(trial[1].prompt, avatar, TrialScene)
                IN  [otherCharacters |-> OtherCharactersArg(mapping.value),
                     avatar |-> avatar,
                     args |-> args,
                     parts |-> RevisedImageParts(args.prompt, args.avatarBase64,
                                                 args.avatarMime, args.sceneBase64,
                                                 args.sceneMime),
                     result |-> mapping])
  /\ UNCHANGED <<appVars, trial, served, issued>>

\* generateRevisedImage is called and answers.
SvcRevise ==
  /\ trial # Null /\ outcome = Null
  /\ trial[1].fn = "generateRevisedImage"
  /\ LET args == [prompt |-> trial[1].prompt,
                  avatarBase64 |-> trial[1].avatarBase64,
                  avatarMime |-> trial[1].avatarMime,
                  sceneBase64 |-> TrialScene.base64, sceneMime |-> TrialScene.mimeType]
     IN  outcome' = Some(
           [otherCharacters |-> <<>>, avatar |-> Null, args |-> args,
            parts |-> RevisedImageParts(args.prompt, args.avatarBase64, args.avatarMime,
                                        args.sceneBase64, args.sceneMime),
            result |-> GenerateRevisedImage(trial[1].response)])
  /\ UNCHANGED <<appVars, trial, served, issued>>

NextSvc == SvcText \/ SvcIdentify \/ SvcRevise

SpecSvc == InitSvc /\ [][NextSvc]_vars

\* ------------------------------------------------------------------------
\* Properties of the whole component (Spec)
\* ------------------------------------------------------------------------
Blank(script) == script # Null /\ Trim(script[1].content) = ""

\* C1: an upload whose assembled script is empty or all whitespace halts
\* before any generative call: no production run reads a blank script, no
\* bible call is made for one, and once such an upload has committed the
\* stage is neither PROCESSING nor COMPLETE.
C1_EmptyScriptHalts ==
  /\ \A k \in 1..Len(runs) : ~Blank(runs[k].fullScript)
  /\ \A k \in 1..Len(bibleCalls) : Trim(bibleCalls[k].args.fullScript) # ""
  /\ (upload = Null /\ Blank(fullScript)) => stage \notin {"PROCESSING", "COMPLETE"}

\* C2: the bible is built exactly once per upload, its call has returned
\* before the first per-frame call is issued, and the bible the per-frame
\* calls read is the one that was set and stays so.
C2_BibleBuiltOnce ==
  /\ bibleCount <= 1
  /\ runs # <<>> => bibleCalls = <<>>
  /\ \A k \in 1..Len(runs) : runs[k].characterBible = characterBible

\* C3: at most one frame's pipeline is in flight: processProductionRun is
\* never executing twice at the same time.
C3_OneRunAtATime == Len(runs) <= 1

\* ------------------------------------------------------------------------
\* Properties of one upload up to the start of production (SpecAsm)
\* ------------------------------------------------------------------------
\* The names of keys in ascending order of UTF-16 code units, by rank.
Rank(key, keys) ==
  Cardinality({i \in 1..Len(keys) : CodeUnitCompare(keys[i], key) < 0})
Ascending(keys) ==
  [r \in 1..Len(keys) |-> keys[CHOOSE i \in 1..Len(keys) : Rank(keys[i], keys) = r - 1]]

\* C4: the production run visits the frames in lexicographic order of their
\* names, the order in which the assembler visited them.
C4_ProductionOrderIsAssemblyOrder ==
  \A k \in 1..Len(runs) :
    /\ Keys(runs[k].allImages) = Ascending(Keys(processedImages))
    /\ Keys(runs[k].allImages) = SortedImageKeys(processedImages)

\* The lines the frames of keys push, in the order of keys.
RECURSIVE LinesOf(_, _)
LinesOf(keys, texts) ==
  IF keys = <<>> THEN <<>>
  ELSE FrameLines(Head(keys), texts) \o LinesOf(Tail(keys), texts)

\* C5: whatever the order in which the frames were inserted, the assembled
\* script is the newline-join of the frames' selected lines in strictly
\* ascending lexicographic order of frame name, and that order is total.
C5_AssembledInAscendingOrder ==
  (upload = Null /\ fullScript # Null) =>
    LET keys == Keys(processedImages)
        asc == Ascending(keys)
    IN  /\ \A a, b \in 1..Len(keys) :
             a # b => /\ CodeUnitCompare(keys[a], keys[b]) # 0
                      /\ CodeUnitCompare(keys[a], keys[b]) = -CodeUnitCompare(keys[b], keys[a])
        /\ \A r \in 1..(Len(asc) - 1) : CodeUnitCompare(asc[r], asc[r + 1]) < 0
        /\ fullScript[1].content = Join(LinesOf(asc, textFiles), NL)

\* Two frames inserted in descending order have both contributed a line.
C5_Witness ==
  /\ upload = Null /\ fullScript # Null
  /\ \E i, j \in 1..Len(processedImages) :
       /\ i < j
       /\ CodeUnitCompare(processedImages[i].fileName, processedImages[j].fileName) > 0
       /\ FrameLines(processedImages[i].fileName, textFiles) # <<>>
       /\ FrameLines(processedImages[j].fileName, textFiles) # <<>>

\* The line breaks of a text, and the text between the third and the fourth.
Breaks(content) == {i \in 1..Len(content) : SubSeq(content, i, i) = NL}
BreakNo(content, n) ==
  CHOOSE i \in Breaks(content) : Cardinality({j \in Breaks(content) : j < i}) = n - 1
FourthLine(content) ==
  SubSeq(content, BreakNo(content, 3) + 1,
         IF Cardinality(Breaks(content)) >= 4 THEN BreakNo(content, 4) - 1 ELSE Len(content))

\* What a frame is to contribute: nothing without a matched text or with one
\* of fewer than four lines, the fourth line alone otherwise.
Contribution(key, texts) ==
  LET t == FindText(texts, Base(key))
  IN  IF t = 0 \/ Cardinality(Breaks(texts[t].content)) + 1 < 4 THEN <<>>
      ELSE <<FourthLine(texts[t].content)>>

RECURSIVE Contributions(_, _)
Contributions(keys, texts) ==
  IF keys = <<>> THEN <<>>
  ELSE Contribution(Head(keys), texts) \o Contributions(Tail(keys), texts)

\* C6: a frame whose matched text has fewer than four lines contributes no
\* line to the assembled script; one whose matched text has at least four
\* lines contributes exactly its fourth line.
C6_FourthLineOrNothing ==
  (upload = Null /\ fullScript # Null) =>
    fullScript[1].content =
      Join(Contributions(SortedImageKeys(processedImages), textFiles), NL)

\* An upload has committed with a frame matched to a text of fewer than four
\* lines and a frame matched to a text of at least four.
C6_Witness ==
  /\ upload = Null /\ fullScript # Null
  /\ \E i, j \in 1..Len(processedImages) :
       LET ti == FindText(textFiles, Base(processedImages[i].fileName))
           tj == FindText(textFiles, Base(processedImages[j].fileName))
       IN  /\ ti # 0 /\ tj # 0
           /\ Len(Split(textFiles[ti].content, NL)) < 4
           /\ Len(Split(textFiles[tj].content, NL)) >= 4
           /\ fullScript[1].content # ""

\* ------------------------------------------------------------------------
\* Properties of the service functions (SpecSvc)
\* ------------------------------------------------------------------------
Called(fn) == outcome # Null /\ trial[1].fn = fn

\* C7: each of the five service functions returns normally whatever its
\* generative call does; when the call raises, the function returns its own
\* fixed fallback value.
C7_FailuresBecomeSentinels ==
  outcome # Null =>
    LET fn == trial[1].fn
        result == outcome[1].result
    IN  /\ ~result.threw
        /\ trial[1].response.raise =>
             CASE fn = "createCharacterBible" ->
                    result.value = "Error creating Character Bible."
               [] fn = "analyzeSceneImage" ->
                    result.value = "Image analysis failed."
               [] fn = "identifyConsistentCharacter" ->
                    /\ result.value.characterName = "Unknown"
                    /\ result.value.avatarFilename = Null
               [] fn = "generateRejuvenatedPrompt" ->
                    result.value = "Cinematic film frame, professional lighting."
               [] fn = "generateRevisedImage" ->
                    result.value = [imageBase64 |-> Null]

\* A call of the prompt synthesizer raised and the function has returned.
C7_Witness ==
  /\ Called("generateRejuvenatedPrompt")
  /\ trial[1].response.raise
  /\ ~outcome[1].result.threw

\* The identifier's answer is no structured data, or lacks the fields.
NotParseable(response) ==
  ~response.raise /\ response.text \in {Some(DocNotJson), Some(DocNull)}
LacksFields(response) ==
  ~response.raise /\ response.text \in {Null, Some(""), Some(DocNoFields)}

KnownAvatar(name, avatarMap) == \E i \in 1..Len(avatarMap) : avatarMap[i].fileName = name

\* C9: when the identifier names an avatar that is not loaded, the image
\* generator is called without an avatar and nothing is thrown; an avatar
\* is passed only when the name is that of a loaded avatar, and it is that
\* avatar.
C9_UnknownAvatarIsNoAvatar ==
  Called("identifyConsistentCharacter") =>
    LET mapping == outcome[1].result
        args == outcome[1].args
    IN  /\ ~mapping.threw
        /\ (mapping.value.avatarFilename # Null
              /\ ~KnownAvatar(mapping.value.avatarFilename[1], trial[1].avatars)) =>
             /\ outcome[1].avatar = Null
             /\ args.avatarBase64 = Null /\ args.avatarMime = Null
             /\ Len(outcome[1].parts) = 2
        /\ args.avatarBase64 # Null =>
             /\ mapping.value.avatarFilename # Null
             /\ \E i \in 1..Len(trial[1].avatars) :
                  /\ trial[1].avatars[i].fileName = mapping.value.avatarFilename[1]
                  /\ args.avatarBase64 = Some(trial[1].avatars[i].base64)
                  /\ args.avatarMime = Some(trial[1].avatars[i].mimeType)

\* The identifier named an avatar that is not among the loaded ones.
C9_Witness ==
  /\ Called("identifyConsistentCharacter")
  /\ trial[1].avatars # <<>>
  /\ outcome[1].result.value.avatarFilename = Some("x.png")
  /\ outcome[1].parts # <<>>

\* C10: the request of generateRevisedImage has one of two shapes. With an
\* avatar: six parts, in the order prompt text, identity-transplant
\* instruction, avatar label, avatar image, scene label, scene image.
\* Without: two parts, the re-render instruction and the scene image. Every
\* image comes right after a text that announces it.
C10_PayloadShapes ==
  (outcome # Null /\ outcome[1].parts # <<>>) =>
    LET args == outcome[1].args
        parts == outcome[1].parts
        scene == InlinePart(args.sceneBase64, args.sceneMime)
    IN  /\ IF args.avatarBase64 \notin {Null, Some("")} /\ args.avatarMime \notin {Null, Some("")}
           THEN /\ Len(parts) = 6
                /\ parts[1] = TextPart("[PROMPT] " \o args.prompt)
                /\ parts[2].inlineData = Null
                /\ StartsWith(parts[2].text[1], "\n\n[INSTRUCTION] This is an IDENTITY TRANSPLANT.")
                /\ parts[3] = TextPart("\n\nAVATAR (Identity Source):")
                /\ parts[4] = InlinePart(args.avatarBase64[1], args.avatarMime[1])
                /\ parts[5] = TextPart("\n\nSCENE (Composition Source):")
                /\ parts[6] = scene
           ELSE /\ Len(parts) = 2
                /\ parts[1].inlineData = Null
                /\ StartsWith(parts[1].text[1], "TASK: CINEMATIC RE-RENDER.")
                /\ IndexOf(parts[1].text[1], args.prompt) # -1
                /\ parts[2] = scene
        /\ \A i \in 1..Len(parts) :
             parts[i].inlineData # Null => i > 1 /\ parts[i - 1].text # Null

\* generateRevisedImage was called with an avatar and built six parts.
C10_Witness ==
  /\ Called("generateRevisedImage")
  /\ trial[1].avatarBase64 = Some("base64 of b.png")
  /\ Len(outcome[1].parts) = 6

\* ------------------------------------------------------------------------
\* One upload and its production run, over every answer of the service
\* ------------------------------------------------------------------------
NextRun ==
  \/ \E archive \in Archives : FirstUpload(archive)
  \/ UploadCommit
  \/ UploadFail
  \/ RunAnalysisHalt
  \/ RunAnalysisCall
  \/ ProcessProductionRun
  \/ EffectIdle
  \/ \E k \in 1..Len(bibleCalls), response \in BibleResponses : BibleReturns(k, response)
  \/ \E k \in 1..Len(runs), response \in AnalysisResponses : AnalyzeReturns(k, response)
  \/ \E k \in 1..Len(runs), response \in IdentifyResponses : IdentifyReturns(k, response)
  \/ \E k \in 1..Len(runs), response \in SynthResponses : SynthReturns(k, response)
  \/ \E k \in 1..Len(runs), response \in ImageResponses : GenerateReturns(k, response)

SpecRun == Init /\ [][NextRun]_vars

\* ------------------------------------------------------------------------
\* Properties of a production run (SpecRun)
\* ------------------------------------------------------------------------
\* The step in which a production run receives the answer to a call of fn.
Answered(fn) == served' # served /\ served'[1].fn = fn

\* The output parts of an answer that carry an image payload.
Payloads(response) ==
  IF response.raise \/ response.parts = Null THEN {}
  ELSE {i \in 1..Len(response.parts[1]) :
          /\ response.parts[1][i].inlineData # Null
          /\ response.parts[1][i].inlineData[1].data # ""}

\* C11, one step: what the caller does with the answer of the image generator.
C11_Step ==
  Answered("generateRevisedImage") =>
    LET k == served'[1].run
        response == served'[1].response
        this == [upload |-> served'[1].upload, frame |-> served'[1].frame,
                 fn |-> "generateRevisedImage"]
        proceeds == \/ Len(runs') = Len(runs) - 1 /\ stage' = "COMPLETE"
                    \/ /\ Len(runs') = Len(runs)
                       /\ runs'[k].i > runs[k].i
                       /\ runs'[k].call.fn = "analyzeSceneImage"
    IN  /\ runs[k].allImages[runs[k].i].fileName = served'[1].frame
        /\ proceeds
        /\ CopiesIn(this, issued') = CopiesIn(this, issued)
        /\ IF Payloads(response) = {}
           THEN results' = results /\ downloads' = downloads
           ELSE /\ Len(results') = Len(results) + 1
                /\ SubSeq(results', 1, Len(results)) = results
                /\ results'[Len(results')].originalName = served'[1].frame
                /\ \E i \in Payloads(response) :
                     /\ \A j \in Payloads(response) : i <= j
                     /\ results'[Len(results')].base64 =
                          response.parts[1][i].inlineData[1].data

\* C11: generateRevisedImage returns the first image payload among the
\* answer's output parts, or null when there is none; on null the caller
\* appends no result and persists no file for the frame, does not call the
\* generator again for it, and the run goes on to the next frame.
C11_NullImageSkipsFrame == [][C11_Step]_vars

\* The generator answered the first frame without an image and the run is
\* at a later frame.
C11_Witness ==
  /\ served # Null /\ served[1].fn = "generateRevisedImage"
  /\ Payloads(served[1].response) = {}
  /\ results = <<>> /\ downloads = <<"hs4000.txt", "bible.txt">>
  /\ runs # <<>> /\ runs[1].i > 1 /\ runs[1].allImages[runs[1].i].fileName # served[1].frame

\* A text asset matches the frame: its name starts with the frame's base
\* identifier and ends with the text extension.
HasText(frame, texts) ==
  \E t \in 1..Len(texts) :
    StartsWith(texts[t].name, Base(frame)) /\ EndsWith(texts[t].name, ".txt")

\* The frames of keys that a text matches, in their order.
RECURSIVE Matched(_, _)
Matched(keys, texts) ==
  IF keys = <<>> THEN <<>>
  ELSE (IF HasText(Head(keys), texts) THEN <<Head(keys)>> ELSE <<>>)
       \o Matched(Tail(keys), texts)

\* C12: a frame that no text asset matches is skipped in the assembler and
\* in the production run: it adds nothing to the script, no call is made
\* and no result kept for it, no error is logged for it, and when the run
\* is complete every other frame has been processed.
C12_UnmatchedFrameSkipped ==
  LET frames == Keys(processedImages)
      unmatched == {f \in {frames[i] : i \in 1..Len(frames)} : ~HasText(f, textFiles)}
      matched == {f \in {frames[i] : i \in 1..Len(frames)} : HasText(f, textFiles)}
  IN  /\ (upload = Null /\ fullScript # Null) =>
           fullScript[1].content =
             Join(Hs4000Lines(Matched(SortedImageKeys(processedImages), textFiles),
                              textFiles), NL)
      /\ \A x \in BagToSet(issued) : x.frame \notin unmatched
      /\ \A k \in 1..Len(runs) :
           HasText(runs[k].allImages[runs[k].i].fileName, runs[k].textFiles)
      /\ \A r \in 1..Len(results) : results[r].originalName \notin unmatched
      /\ \A f \in unmatched, l \in 1..Len(logs) :
           ~StartsWith(logs[l], "CRITICAL ERROR [" \o f \o "]")
      /\ stage = "COMPLETE" =>
           /\ \A f \in unmatched :
                \E l \in 1..Len(logs) : logs[l] = "SKIPPING: " \o f \o " (NO CONTEXT)"
           /\ \A f \in matched :
                CopiesIn([upload |-> LoadedUpload, frame |-> f, fn |-> "analyzeSceneImage"],
                         issued) >= 1

\* A run is complete in which one frame had no text and another frame was
\* rendered.
C12_Witness ==
  /\ stage = "COMPLETE" /\ results # <<>>
  /\ \E i \in 1..Len(processedImages) : ~HasText(processedImages[i].fileName, textFiles)
  /\ \E l \in 1..Len(logs) : StartsWith(logs[l], "SKIPPING: ")

\* ------------------------------------------------------------------------
\* The text functions at their real sizes: the localized script context and
\* the truncations of the prompts
\* ------------------------------------------------------------------------
\* n copies of the text c.
RECURSIVE Repeat(_, _)
Repeat(c, n) ==
  IF n = 0 THEN ""
  ELSE IF n = 1 THEN c
  ELSE LET half == Repeat(c, n \div 2)
       IN  half \o half \o (IF n % 2 = 1 THEN c ELSE "")

\* Scene snippets: longer than the anchor, shorter, and empty.
LongSnippet == "hi there, said the Boss, and then he sat down.\nBoss sits."
TxtSnippets == {LongSnippet, "hi there", "", "by the bay"}

\* What the assembled script holds where a frame's line may stand.
TxtLines == {"hi there, said the Boss, and then he sat down.", "hi there", "bay"}

\* Assembled scripts: a line after PadBefore characters and before PadAfter
\* characters, once or twice.
PadBefore == {0, 999, 1000, 1001}
PadAfter == {0, 2990, 3100}

TxtScripts ==
  {Repeat("x", b) \o NL \o line \o NL \o Repeat("p", a) \o again :
     b \in PadBefore, a \in PadAfter, line \in TxtLines,
     again \in {"", NL \o "hi there"}}

\* Texts around each truncation cap, told apart by their last character.
CapLengths ==
  {0, 1, 999, 1000, 1001, 1499, 1500, 1501, 7999, 8000, 8001, 14999, 15000, 15001, 16000}
CapTexts ==
  {Repeat(c, n) \o "." : c \in {"a", "b"}, n \in CapLengths} \cup
  {Repeat("ab", n) : n \in CapLengths}

TxtTrials ==
  [fn : {"scriptContext"}, text : TxtScripts, snippet : TxtSnippets] \cup
  [fn : {"prompts"}, text : CapTexts, snippet : {""}]

InitTxt ==
  /\ stage = "IDLE" /\ isUploading = FALSE /\ error = Null
  /\ avatars = <<>> /\ processedImages = <<>> /\ textFiles = <<>>
  /\ fullScript = Null /\ storyMap = Null /\ style = DefaultStyle
  /\ characterBible = "" /\ results = <<>> /\ logs = <<>>
  /\ effectPending = FALSE
  /\ upload = Null /\ nUploads = 0
  /\ bibleCalls = <<>> /\ bibleCount = 0
  /\ runs = <<>> /\ downloads = <<>>
  /\ served = Null /\ issued = EmptyBag
  /\ trial \in {Some(t) : t \in TxtTrials}
  /\ outcome = Null

NoTxtOutcome ==
  [scriptContext |-> "", scriptExcerpt |-> "", identifierBible |-> "",
   synthBible |-> "", synthContext |-> ""]

\* The script context of a frame is localized.
TxtLocalize ==
  /\ trial # Null /\ outcome = Null
  /\ trial[1].fn = "scriptContext"
  /\ outcome' = Some(
       [NoTxtOutcome EXCEPT
          !.scriptContext =
             ScriptContext(Some(TextFile("hs4000.txt", trial[1].text)), trial[1].snippet)])
  /\ UNCHANGED <<appVars, trial, served, issued>>

\* The prompts of the three text functions are built around a text.
TxtEmbed ==
  /\ trial # Null /\ outcome = Null
  /\ trial[1].fn = "prompts"
  /\ outcome' = Some(
       [NoTxtOutcome EXCEPT
          !.scriptExcerpt = BiblePrompt(<<"b.png">>, trial[1].text).scriptExcerpt,
          !.identifierBible = IdentifyPrompt("hi there", "Low-key.", trial[1].text).bible,
          !.synthBible =
             SynthPrompt("hi there", "Boss", trial[1].text, DefaultStyle, "Low-key.",
                         trial[1].text, Null).bibleTraits,
          !.synthContext =
             SynthPrompt("hi there", "Boss", trial[1].text, DefaultStyle, "Low-key.",
                         trial[1].text, Null).fullContext])
  /\ UNCHANGED <<appVars, trial, served, issued>>

NextTxt == TxtLocalize \/ TxtEmbed

SpecTxt == InitTxt /\ [][NextTxt]_vars

\* ------------------------------------------------------------------------
\* Properties of the text functions (SpecTxt)
\* ------------------------------------------------------------------------
\* The positions, from 0, at which anchor stands in text.
Occurrences(text, anchor) ==
  {p \in 0..(Len(text) - Len(anchor)) :
     \A c \in 1..Len(anchor) : SubSeq(text, p + c, p + c) = SubSeq(anchor, c, c)}

\* C13: when the first 40 characters of the snippet occur in the script,
\* first at position P, the localized context is the script from
\* max(0, P - 1000) to min(length, P + 3000); otherwise it is empty. The
\* window never leaves the script.
C13_LocalizedWindow ==
  (outcome # Null /\ trial[1].fn = "scriptContext") =>
    LET script == trial[1].text
        snippet == trial[1].snippet
        anchor == SubSeq(snippet, 1, IF Len(snippet) < 40 THEN Len(snippet) ELSE 40)
        found == Occurrences(script, anchor)
        context == outcome[1].scriptContext
    IN  IF found = {} THEN context = ""
        ELSE \E P \in found :
               /\ \A Q \in found : P <= Q
               /\ LET from == IF P - 1000 < 0 THEN 0 ELSE P - 1000
                      to == IF P + 3000 > Len(script) THEN Len(script) ELSE P + 3000
                  IN  /\ 0 <= from /\ from <= to /\ to <= Len(script)
                      /\ Len(context) = to - from
                      /\ \A c \in 1..Len(context) :
                           SubSeq(context, c, c) = SubSeq(script, from + c, from + c)

\* An anchor of 40 characters was found more than 1000 characters into a
\* script that goes on for more than 3000 after it.
C13_Witness ==
  /\ outcome # Null /\ trial[1].fn = "scriptContext"
  /\ trial[1].snippet = LongSnippet
  /\ Len(outcome[1].scriptContext) = 4000

\* The first n characters of text, all of it when it is shorter.
Prefix(text, n) == SubSeq(text, 1, IF Len(text) < n THEN Len(text) ELSE n)

\* C14: the script excerpt of the bible builder's prompt is the script's
\* prefix of at most 15,000 characters, the bible of the identifier's prompt
\* its prefix of at most 8,000 and the bible of the synthesizer's prompt its
\* prefix of at most 1,000; a shorter text is embedded whole.
C14_TruncationCaps ==
  (outcome # Null /\ trial[1].fn = "prompts") =>
    LET text == trial[1].text
    IN  /\ outcome[1].scriptExcerpt = Prefix(text, 15000)
        /\ outcome[1].identifierBible = Prefix(text, 8000)
        /\ outcome[1].synthBible = Prefix(text, 1000)
        /\ Len(outcome[1].scriptExcerpt) <= 15000
        /\ Len(outcome[1].identifierBible) <= 8000
        /\ Len(outcome[1].synthBible) <= 1000
        /\ Len(text) <= 1000 =>
             /\ outcome[1].scriptExcerpt = text
             /\ outcome[1].identifierBible = text
             /\ outcome[1].synthBible = text

\* A text longer than every cap was embedded and cut at each of them.
C14_Witness ==
  /\ outcome # Null /\ trial[1].fn = "prompts"
  /\ Len(trial[1].text) > 15000
  /\ Len(outcome[1].scriptExcerpt) = 15000
  /\ Len(outcome[1].identifierBible) = 8000
  /\ Len(outcome[1].synthBible) = 1000

\* ------------------------------------------------------------------------
\* The whole component when effects run, decoding ends and every call is
\* answered; the operator stays free to upload or not
\* ------------------------------------------------------------------------
EffectStep == RunAnalysisHalt \/ RunAnalysisCall \/ EffectIdle

\* No effect is pending, no archive is being decoded and no call is in flight.
Settled == ~effectPending /\ upload = Null /\ bibleCalls = <<>> /\ runs = <<>>

\* A pending effect runs; every decoding ends and every call is answered, so
\* that the component settles again and again.
SpecLive == Init /\ [][Next]_vars /\ WF_vars(EffectStep) /\ []<>Settled

\* ------------------------------------------------------------------------
\* Properties of the whole component, continued (Spec, SpecLive)
\* ------------------------------------------------------------------------
\* The committed upload has a script that is not blank.
LoadedScript == upload = Null /\ fullScript # Null /\ ~Blank(fullScript)

\* Every frame of the committed upload has been visited once: analysed once
\* when a text matches it, never when none does.
VisitedOnce ==
  \A i \in 1..Len(processedImages) :
    CopiesIn([upload |-> LoadedUpload, frame |-> processedImages[i].fileName,
              fn |-> "analyzeSceneImage"], issued)
      = (IF HasText(processedImages[i].fileName, textFiles) THEN 1 ELSE 0)

\* C15: when every call is answered, an upload whose assembled script is
\* not empty reaches stage COMPLETE, and by then each of its frames has
\* been visited exactly once.
C15_RunCompletes ==
  /\ [](LoadedScript => <>(stage = "COMPLETE"))
  /\ []((LoadedScript /\ stage = "COMPLETE") => VisitedOnce)

\* The uploads for whose frame named f an image was requested.
UploadsOf(f, calls) ==
  {c.upload : c \in {c \in BagToSet(calls) : c.frame = f /\ c.fn = "generateRevisedImage"}}

\* The entries of list that are named f.
EntriesOf(f, list) == {n \in 1..Len(list) : list[n].originalName = f}

\* Every upload whose frames had an image requested.
Generated(calls) == {c.upload : c \in {c \in BagToSet(calls) : c.fn = "generateRevisedImage"}}

\* C16, one step: the list keeps its entries and grows by one entry at most,
\* the entry of the frame whose image generation has just answered with an
\* image.
C16_Append ==
  \/ results' = results
  \/ /\ Len(results') = Len(results) + 1
     /\ SubSeq(results', 1, Len(results)) = results
     /\ Answered("generateRevisedImage")
     /\ Payloads(served'[1].response) # {}
     /\ results'[Len(results')].originalName = served'[1].frame

\* C16, the list: one entry at most for a frame of an upload, and the
\* entries of an upload in the order its frames are processed.
C16_Ordered(list, calls) ==
  /\ \A n \in 1..Len(list) :
       Cardinality(EntriesOf(list[n].originalName, list))
         <= Cardinality(UploadsOf(list[n].originalName, calls))
  /\ Cardinality(Generated(calls)) <= 1 =>
       \A a, b \in 1..Len(list) :
         a < b => LocaleCompare(list[a].originalName, list[b].originalName) < 0

\* C16: the results list is append-only; it holds at most one entry per
\* frame, only for frames whose image generation returned an image, and its
\* entries are in frame-processing order.
C16_ResultsAppendOnly == [][C16_Append /\ C16_Ordered(results', issued')]_vars

\* The frame names of the archives.
FrameNames == UNION {{a.processed[n].fileName : n \in 1..Len(a.processed)} : a \in Archives}

\* The log lines that an iteration for frame f can write.
LinesAbout(f) ==
  {"SKIPPING: " \o f \o " (NO CONTEXT)",
   "CRITICAL ERROR [" \o f \o "]: Error",
   "DOWNLOADED: " \o Base(f) \o "_rejuvenated.png",
   "REVISION FAILED FOR " \o f \o ". SKIPPING."}

IsArtifact(d) == d \notin {"hs4000.txt", "bible.txt"}

\* The per-frame files among the persisted files, in their order.
Artifacts(files) == SelectSeq(files, IsArtifact)

\* C17: the persisted side effects follow the frame sequence: the assembled
\* script is persisted before the bible and the bible before every per-frame
\* file; the per-frame files, the result entries and the log lines of a frame
\* come before those of every later frame; the metadata text of a frame is
\* persisted before its image.
C17_SideEffectsInOrder ==
  /\ \A a, b \in 1..Len(downloads) :
       a < b =>
         /\ downloads[b] = "hs4000.txt" => downloads[a] = "hs4000.txt"
         /\ downloads[b] = "bible.txt" => downloads[a] = "hs4000.txt"
  /\ Len(Artifacts(downloads)) = 2 * Len(results)
  /\ \A n \in 1..Len(results) :
       /\ Artifacts(downloads)[2 * n - 1] = Base(results[n].originalName) \o "_meta.txt"
       /\ Artifacts(downloads)[2 * n] = results[n].newName
  /\ \A a, b \in 1..Len(results) :
       a < b => LocaleCompare(results[a].originalName, results[b].originalName) < 0
  /\ \A a, b \in 1..Len(logs) : \A f, g \in FrameNames :
       (a < b /\ logs[a] \in LinesAbout(f) /\ logs[b] \in LinesAbout(g))
         => LocaleCompare(f, g) < 0

\* The frame name with its extension stripped: the text up to the last '.',
\* the whole name when there is none.
Dots(fileName) == {i \in 1..Len(fileName) : SubSeq(fileName, i, i) = "."}
Stem(fileName) ==
  IF Dots(fileName) = {} THEN fileName
  ELSE SubSeq(fileName, 1, (CHOOSE i \in Dots(fileName) : \A j \in Dots(fileName) : j <= i) - 1)

\* The position of the first text named after the stem of frame, 0 when
\* there is none.
TextOf(frame, texts) ==
  LET hits == {i \in 1..Len(texts) :
                 StartsWith(texts[i].name, Stem(frame)) /\ EndsWith(texts[i].name, DotTxt)}
  IN  IF hits = {} THEN 0 ELSE CHOOSE i \in hits : \A j \in hits : i <= j

\* The line that the text named after the stem of key is to contribute.
StemLine(key, texts) ==
  LET t == TextOf(key, texts)
  IN  IF t = 0 \/ Cardinality(Breaks(texts[t].content)) + 1 < 4 THEN <<>>
      ELSE <<FourthLine(texts[t].content)>>

RECURSIVE StemLines(_, _)
StemLines(keys, texts) ==
  IF keys = <<>> THEN <<>>
  ELSE StemLine(Head(keys), texts) \o StemLines(Tail(keys), texts)

\* C18: the base identifier by which a frame's text is looked up, in the
\* assembler and in the production run, is the frame name up to its last
\* '.': the script is assembled from the texts so named, and a run works on
\* the text so named and skips exactly the frames without one.
C18_BaseIsNameToLastDot ==
  /\ (upload = Null /\ fullScript # Null) =>
       fullScript[1].content =
         Join(StemLines(SortedImageKeys(processedImages), textFiles), NL)
  /\ \A k \in 1..Len(runs) :
       LET run == runs[k]
       IN  \A j \in 1..run.i :
             LET frame == run.allImages[j].fileName
                 t == TextOf(frame, run.textFiles)
             IN  /\ (t # 0) <=>
                      CopiesIn([upload |-> run.upload, frame |-> frame,
                                fn |-> "analyzeSceneImage"], issued) > 0
                 /\ j = run.i => (t # 0 /\ run.tFile = run.textFiles[t])

\* The generative calls of one frame, in their order.
Chain ==
  <<"analyzeSceneImage", "identifyConsistentCharacter", "generateRejuvenatedPrompt",
    "generateRevisedImage">>

\* The calls that the step issues.
IssuedNow == {c \in BagToSet(issued') : CopiesIn(c, issued') > CopiesIn(c, issued)}

\* C19, the calls so far: none was issued twice for a frame, and none
\* without the one before it in the chain.
C19_Once(calls) ==
  \A c \in BagToSet(calls) :
    /\ CopiesIn(c, calls) = 1
    /\ \A n \in 2..4 :
         c.fn = Chain[n] => CopiesIn([c EXCEPT !.fn = Chain[n - 1]], calls) = 1

\* C19, one step: a call other than the visual analysis is issued when the
\* call before it has returned for the same frame, and receives what that
\* frame's earlier calls and its localized context gave.
C19_Step ==
  /\ \A c \in IssuedNow :
       /\ CopiesIn(c, issued') = CopiesIn(c, issued) + 1
       /\ \A n \in 2..4 :
            c.fn = Chain[n] =>
              /\ Answered(Chain[n - 1])
              /\ served'[1].upload = c.upload /\ served'[1].frame = c.frame
  /\ \A n \in 1..3 :
       Answered(Chain[n]) =>
         LET k == served'[1].run
             response == served'[1].response
             next == runs'[k]
         IN  /\ Len(runs') = Len(runs)
             /\ next.i = runs[k].i
             /\ next.call.fn = Chain[n + 1]
             /\ IssuedNow = {[upload |-> served'[1].upload, frame |-> served'[1].frame,
                              fn |-> Chain[n + 1]]}
             /\ n = 1 =>
                  next.call.args.sceneVisualAnalysis = AnalyzeSceneImage(response).value
             /\ n = 2 =>
                  /\ next.call.args.characterName =
                       IdentifyConsistentCharacter(response).value.characterName
                  /\ next.call.args.visualAnalysis = runs[k].visualAnalysis
                  /\ next.call.args.fullScriptSnippet =
                       ScriptContext(runs[k].fullScript,
                                     SceneTextSnippet(runs[k].tFile.content))
             /\ n = 3 =>
                  next.call.args.prompt = GenerateRejuvenatedPrompt(response).value

\* C19: for each processed frame the four generative calls are issued once
\* each, in the order analysis, identification, synthesis, generation, each
\* after the previous one has returned and with the previous results as its
\* arguments.
C19_CallsOnceInOrder == [][C19_Step /\ C19_Once(issued')]_vars

\* The calls of each run for each frame are issued in order with their data;
\* only how often a frame's calls are issued is left out.
C19_OrderWithinRun == [][C19_Step]_vars

\* A run is under way: its bible call is in flight, or the bible is built
\* and production has not ended.
InProgress == bibleCalls # <<>> \/ runs # <<>> \/ stage = "PROCESSING"

\* C20: from the bible call of a run until COMPLETE or the halt, no step
\* changes the assembled script, the avatar map, the frame map or the
\* text-asset list, whatever uploads and call completions occur.
C20_AssetsReadOnlyDuringRun ==
  [][InProgress => UNCHANGED <<fullScript, avatars, processedImages, textFiles>>]_vars

\* The step starts runAnalysis: it halts on an empty script or issues the
\* bible call.
AnalysisStarts ==
  \/ Len(bibleCalls') > Len(bibleCalls)
  \/ /\ stage = "ANALYZING" /\ stage' = "IDLE"
     /\ error' = Some("GENERATED SCRIPT IS EMPTY. CANNOT CREATE BIBLE. PROCESS HALTED.")

\* What is in flight works on the committed upload.
OnCommitted(calls, rs, script, avs, images, texts) ==
  /\ \A k \in 1..Len(calls) :
       /\ script # Null
       /\ calls[k].args.fullScript = script[1].content
       /\ calls[k].args.filenames = Keys(avs)
  /\ \A k \in 1..Len(rs) :
       /\ rs[k].fullScript = script /\ rs[k].avatars = avs
       /\ rs[k].textFiles = texts /\ rs[k].allImages = AllImages(images)

\* C21: runAnalysis starts only when the upload has committed (no archive is
\* being decoded), and the bible call and the production run work on the
\* script, avatars and frames of that upload; a script left by an earlier
\* upload is never analysed while a new upload is decoding.
C21_AnalysisOnCommittedUpload ==
  [][/\ AnalysisStarts => upload = Null
     /\ OnCommitted(bibleCalls', runs', fullScript', avatars', processedImages',
                    textFiles')]_vars

\* C22: a frame that contributed its fourth line to the assembled script
\* gets a localized context that is not empty and holds that line.
C22_ContributorIsLocalized ==
  \A k \in 1..Len(runs) :
    LET run == runs[k]
        line == Contribution(run.allImages[run.i].fileName, run.textFiles)
    IN  (run.i >= 1 /\ line # <<>>) =>
          /\ run.scriptContext # ""
          /\ Occurrences(run.scriptContext, line[1]) # {}

\* The text assets of a frame's own: named by the frame's base identifier
\* and the text extension.
Own(frame, texts) ==
  {t \in 1..Len(texts) :
     Base(texts[t].name) = Base(frame) /\ EndsWith(texts[t].name, DotTxt)}

\* The text a frame is to be paired with: its own when it has one, the one
\* looked up otherwise.
PairOf(frame, texts) ==
  IF Own(frame, texts) # {}
  THEN CHOOSE t \in Own(frame, texts) : \A u \in Own(frame, texts) : t <= u
  ELSE FindText(texts, Base(frame))

PairLine(key, texts) ==
  LET t == PairOf(key, texts)
  IN  IF t = 0 \/ Cardinality(Breaks(texts[t].content)) + 1 < 4 THEN <<>>
      ELSE <<FourthLine(texts[t].content)>>

RECURSIVE PairLines(_, _)
PairLines(keys, texts) ==
  IF keys = <<>> THEN <<>>
  ELSE PairLine(Head(keys), texts) \o PairLines(Tail(keys), texts)

\* C23: a frame that has a text asset of its own base identifier is paired
\* with it, in the assembler and in the production run, whatever the order
\* of the text assets, and frames of different base identifiers are never
\* paired with the same text asset.
C23_FramePairedWithOwnText ==
  /\ (upload = Null /\ fullScript # Null) =>
       fullScript[1].content =
         Join(PairLines(SortedImageKeys(processedImages), textFiles), NL)
  /\ \A k \in 1..Len(runs) :
       LET run == runs[k]
       IN  run.i >= 1 =>
             /\ run.tFile = run.textFiles[PairOf(run.allImages[run.i].fileName,
                                                 run.textFiles)]
             /\ \A j \in 1..Len(run.allImages) :
                  Base(run.allImages[j].fileName) # Base(run.allImages[run.i].fileName)
                    => \/ FindText(run.textFiles, Base(run.allImages[j].fileName)) = 0
                       \/ run.textFiles[FindText(run.textFiles,
                                                 Base(run.allImages[j].fileName))]
                            # run.tFile

====
